---- MODULE Spec2Model ----
(***************************************************************************)
(* The canonical kanban board (KanbanBoard in                              *)
(* src/components/EditTaskDialog.tsx, lines 283-458) together with the     *)
(* task collaborator (src/lib/supabase/tasks.ts) it persists through.      *)
(*                                                                         *)
(* The board is a single-threaded, event-driven component: every handler   *)
(* runs to its first await atomically, and the rest of the handler (the    *)
(* code after the await) runs atomically when the awaited call has         *)
(* settled.  An in-flight call is a record that remembers the values the   *)
(* handler closed over.  The backend processes the calls it has received   *)
(* in any order.                                                           *)
(*                                                                         *)
(* Beside the canonical board stand the lagging board variants of the same *)
(* file, the sprint page (src/pages/SprintPage.tsx), joinProject of the    *)
(* projects collaborator (src/lib/supabase/projects.ts) and the auth       *)
(* provider (src/contexts/AuthContext.tsx); each has a specification of    *)
(* its own over the same variables.                                        *)
(***************************************************************************)
EXTENDS Integers, Sequences, FiniteSets, TLC

\* ---------------------------------------------------------------- bounds
MaxReq == 2       \* update requests issued in one behaviour
MaxDel == 1       \* delete requests issued in one behaviour
MaxEdit == 1      \* edit dialogs submitted in one behaviour
MaxOps == 2       \* requests and edits together, on the whole board
MaxLoad == 2      \* fetchTasks calls issued in one behaviour
MaxJoin == 2      \* joinProject calls made in one behaviour
MaxEvent == 3     \* session events delivered in one behaviour

\* ------------------------------------------------------------ vocabulary
None == "none"

\* undefined / null where a Task record is expected, and a row that is gone
NoTask == [id |-> None, status |-> None, title |-> None]
NoRow == [status |-> None, title |-> None]

TaskIds == {"t1", "t2"}

\* the sprints the board can be shown for; every task belongs to the first
Sprints == {"s1", "s2"}

Status == {"todo", "in-progress", "in-review", "done"}

Titles == {"a", "b"}

Lanes == {"column-todo", "column-in-progress", "column-in-review", "column-done"}

\* mutant: an id that is no lane falls back to the first lane
newStatusMap_Fallback(columnId) ==
    CASE columnId = "column-todo" -> "todo"
      [] columnId = "column-in-progress" -> "in-progress"
      [] columnId = "column-in-review" -> "in-review"
      [] columnId = "column-done" -> "done"
      [] columnId = None -> None
      [] OTHER -> "todo"

\* handleDragEnd's newStatusMap; a key that is absent yields undefined (None)
newStatusMap(columnId) ==
    CASE columnId = "column-todo" -> "todo"
      [] columnId = "column-in-progress" -> "in-progress"
      [] columnId = "column-in-review" -> "in-review"
      [] columnId = "column-done" -> "done"
      [] OTHER -> None

\* ids a drop can report: a lane (useDroppable) or a card (useSortable)
OverIds == Lanes \cup TaskIds

\* the droppables the pointer passes over during a drag (a small sample:
\* the hover is cosmetic and the drop's target is drawn independently)
HoverIds == {"column-in-review", "t2"}

VARIABLES
    mounted,        \* the board component is mounted
    tasks,          \* useState<Task[]>: the task store, a sequence of records
    loading,        \* useState(true)
    activeTask,     \* useState<Task | null>
    activeId,       \* useState<string | null>
    currentOverId,  \* useState<string | null>
    isEditDialogOpen,
    selectedTask,
    user,           \* useAuth().user: None or a user id
    sprintId,       \* the sprintId prop of the board
    db,             \* the tasks table: task id -> row (NoRow when deleted)
    fetches,        \* fetchSprintTasks calls in flight
    updates,        \* updateTask calls in flight, with the handler's closure
    deletes,        \* deleteTask calls in flight, with the handler's closure
    nextReq,        \* number of update requests issued so far
    nDel,           \* number of delete requests issued so far
    nEdit,          \* number of edits submitted so far
    nLoad,          \* number of fetchTasks calls issued so far
    toasts,         \* notifications surfaced: [success |-> n, error |-> m]
    dropResult,     \* how the last handleDragEnd ended, until the next drag
    lastReq,        \* history: per task, the id of the last request issued
    projects,       \* the projects table: project id -> [code, members]
    joins,          \* joinProject calls, in flight and finished
    nJoin,          \* number of joinProject calls made so far
    authState,      \* AuthProvider's useState<AuthState>
    lookups,        \* profile lookups of handleSessionChange in flight
    nEvent,         \* number of session events delivered so far
    lastSession     \* history: the session of the most recent event

vars == <<mounted, tasks, loading, activeTask, activeId, currentOverId,
          isEditDialogOpen, selectedTask, user, sprintId, db, fetches, updates,
          deletes, nextReq, nDel, nEdit, nLoad, toasts, dropResult, lastReq,
          projects, joins, nJoin, authState, lookups, nEvent, lastSession>>

\* the state of the board, and the state of the components beside it
board == <<mounted, tasks, loading, activeTask, activeId, currentOverId,
           isEditDialogOpen, selectedTask, user, sprintId, db, fetches,
           updates, deletes, nextReq, nDel, nEdit, nLoad, toasts, dropResult,
           lastReq>>
auth == <<authState, lookups, nEvent, lastSession>>
offBoard == <<projects, joins, nJoin, auth>>

session == <<activeTask, activeId, currentOverId>>
dialog == <<isEditDialogOpen, selectedTask>>
counters == <<nextReq, nDel, nEdit, nLoad>>
history == <<dropResult, lastReq>>

\* ------------------------------------------------------------ useState
\* mutant: the store outlives the board and takes the write
setState_AfterUnmount(isMounted, old, new) == new

\* a useState setter (setTasks, setLoading): React drops the state update
\* of a component that is no longer mounted, without throwing
setState(isMounted, old, new) == IF isMounted THEN new ELSE old

\* ------------------------------------------------------- array helpers
\* tasks.find(t => t.id === taskId); undefined is NoTask
FindTask(ts, taskId) ==
    IF \E i \in 1..Len(ts) : ts[i].id = taskId
    THEN ts[CHOOSE i \in 1..Len(ts) :
                ts[i].id = taskId /\ \A j \in 1..(i-1) : ts[j].id # taskId]
    ELSE NoTask

\* mutant: the store is not touched before the call (the lagging variants)
OptimisticUpdate_Lagging(prevTasks, taskId, newStatus) == prevTasks

\* prevTasks.map(t => (t.id === taskId ? { ...t, status: newStatus } : t))
OptimisticUpdate(prevTasks, taskId, newStatus) ==
    [i \in 1..Len(prevTasks) |->
        IF prevTasks[i].id = taskId
        THEN [prevTasks[i] EXCEPT !.status = newStatus]
        ELSE prevTasks[i]]

\* mutant: the catch block forgets to revert
Rollback_Forgotten(prevTasks, taskId, task) == prevTasks

\* mutant: the revert forgets the id test and resets every card's status
Rollback_EveryCard(prevTasks, taskId, task) ==
    [i \in 1..Len(prevTasks) |-> [prevTasks[i] EXCEPT !.status = task.status]]

\* prevTasks.map(t => (t.id === taskId ? { ...task } : t))
Rollback(prevTasks, taskId, task) ==
    [i \in 1..Len(prevTasks) |->
        IF prevTasks[i].id = taskId THEN task ELSE prevTasks[i]]

\* mutant: the id test is missing and every record is replaced
ReplaceTask_EveryCard(prevTasks, updatedTask) ==
    [i \in 1..Len(prevTasks) |-> updatedTask]

\* prevTasks.map(task => (task.id === updatedTask.id ? updatedTask : task))
ReplaceTask(prevTasks, updatedTask) ==
    [i \in 1..Len(prevTasks) |->
        IF prevTasks[i].id = updatedTask.id THEN updatedTask ELSE prevTasks[i]]

\* mutant: the success branch forgets setTasks
RemoveTask_Forgotten(ts, taskId) == ts

\* tasks.filter(task => task.id !== taskId)
RemoveTask(ts, taskId) == SelectSeq(ts, LAMBDA t : t.id # taskId)

\* mutant: the first lane also takes the cards of no recognized status
classify_UnknownAsTodo(ts, status) ==
    SelectSeq(ts, LAMBDA t : \/ t.status = status
                             \/ status = "todo" /\ t.status \notin Status)

\* mutant: the in-progress lane also takes the cards that are in review
classify_ReviewInProgress(ts, status) ==
    SelectSeq(ts, LAMBDA t : \/ t.status = status
                             \/ status = "in-progress" /\ t.status = "in-review")

\* tasks.filter(t => t.status === status): a lane's cards, in store order
classify(ts, status) == SelectSeq(ts, LAMBDA t : t.status = status)

\* the cards on screen: the cards of the four lanes
Rendered(ts) ==
    UNION {{classify(ts, status)[k].id : k \in 1..Len(classify(ts, status))} :
              status \in Status}

StatusOf(ts, taskId) == FindTask(ts, taskId).status

\* ------------------------------------------------------ task collaborator
TaskOrder == <<"t1", "t2">>

\* fetchSprintTasks: the rows of the sprint mapped to Task records
mappedTasks(rows) ==
    LET present == SelectSeq(TaskOrder, LAMBDA id : rows[id] # NoRow)
    IN  [i \in 1..Len(present) |->
            [id |-> present[i],
             status |-> rows[present[i]].status,
             title |-> rows[present[i]].title]]

\* fetchSprintTasks without an error: .select('*').eq('sprint_id', sprintId)
\* and the mapping of the rows (sprint_id is "s1" on every row)
fetchSprintTasks(rows, sprint) ==
    IF sprint = "s1" THEN mappedTasks(rows) ELSE <<>>

\* updateTask: .update(dbTask).eq('id', task.id) rewrites the matching row
\* from the record it was handed; no row matches a deleted task
dbUpdate(rows, task) ==
    IF rows[task.id] = NoRow THEN rows
    ELSE [rows EXCEPT ![task.id] = [status |-> task.status, title |-> task.title]]

\* deleteTask: .delete().eq('id', id)
dbDelete(rows, id) == [rows EXCEPT ![id] = NoRow]

\* the rows of the sprint when the board mounts
InitRows ==
    [id \in TaskIds |->
        [status |-> IF id = "t1" THEN "todo" ELSE "in-progress", title |-> "a"]]

\* rows one of which holds a status that is none of the four: the column is
\* free text and fetchSprintTasks casts it without a test
MalformedRows == [InitRows EXCEPT !["t2"].status = "blocked"]

\* mutant: the success toast carries variant: "destructive"
toastSuccess_Destructive(t) == [t EXCEPT !.error = @ + 1]

\* toast({...}) and toast({..., variant: "destructive"})
toastSuccess(t) == [t EXCEPT !.success = @ + 1]
toastError(t) == [t EXCEPT !.error = @ + 1]

\* ------------------------------------------------------------------ Init
\* The board has mounted and its effect has called fetchTasks(): the store
\* is empty, the spinner shows and the first fetch is in flight.
\* rows one of which is in review
ReviewRows == [InitRows EXCEPT !["t2"].status = "in-review"]

\* -------------------------------------------------------------- projects
ProjectIds == {"p1", "p2"}

\* the users who join projects
Users == {"u1", "u2"}

\* the join codes users type: one per project and one no project has
Codes == {"HGF462", "QRS805", "ZZZ000"}

\* null where a project row is expected
NoProject == [id |-> None, members |-> <<>>]

\* the projects table when the page opens: u1 is a member of p2
InitProjects ==
    [p \in ProjectIds |->
        IF p = "p1" THEN [code |-> "HGF462", members |-> <<>>]
        ELSE [code |-> "QRS805", members |-> <<"u1">>]]

\* the three joinProject functions of the projects collaborator
Variants == {1, 2, 3}

\* the value the select's .eq('code', ...) filter compares with: the code
\* argument, and in the third variant the literal "HGF462"
eqCode(variant, code) == IF variant = 3 THEN "HGF462" ELSE code

\* select('*').eq('code', c).single() / .maybeSingle(): the row, or an error
\* (single) or null (maybeSingle) when no row matches; codes are unique
selectByCode(table, c) ==
    IF \E p \in ProjectIds : table[p].code = c
    THEN LET p == CHOOSE q \in ProjectIds : table[q].code = c
         IN  [id |-> p, members |-> table[p].members]
    ELSE NoProject

\* mutant: nobody is recognised as a member
includes_Never(members, userId) == FALSE

\* data.members.includes(userId)
includes(members, userId) ==
    \E i \in 1..Len(members) : members[i] = userId

\* ------------------------------------------------------------ AuthState
\* null where a User record is expected
NoUser == [id |-> None, profile |-> FALSE]

\* the state AuthProvider starts with
InitAuthState ==
    [isAuthenticated |-> FALSE, user |-> NoUser, isLoading |-> TRUE]

\* a session event carries a session of a user, or null
Sessions == Users \cup {None}

InitOffBoard ==
    /\ projects = InitProjects
    /\ joins = {}
    /\ nJoin = 0
    /\ authState = InitAuthState
    /\ lookups = {}
    /\ nEvent = 0
    /\ lastSession = None

InitWith(rows) ==
    /\ InitOffBoard
    /\ mounted = TRUE
    /\ tasks = <<>>
    /\ loading = TRUE
    /\ activeTask = NoTask
    /\ activeId = None
    /\ currentOverId = None
    /\ isEditDialogOpen = FALSE
    /\ selectedTask = NoTask
    /\ user \in {None, "u1"}
    /\ sprintId = "s1"
    /\ db = rows
    /\ fetches = {[id |-> 1, sprintId |-> "s1", phase |-> "sent",
                   code |-> None, data |-> <<>>]}
    /\ updates = {}
    /\ deletes = {}
    /\ nextReq = 0
    /\ nDel = 0
    /\ nEdit = 0
    /\ nLoad = 1
    /\ toasts = [success |-> 0, error |-> 0]
    /\ dropResult = None
    /\ lastReq = [id \in TaskIds |-> 0]

Init == InitWith(InitRows)

\* the same board over a table that holds a row of unrecognized status
InitMalformed == InitWith(MalformedRows)

\* the board is on screen and no modal dialog covers it
Interactive == mounted /\ ~loading /\ ~isEditDialogOpen

\* -------------------------------------------------------------- fetching
\* the codes the select of fetchSprintTasks can end with: no error, the
\* table does not exist (42P01), any other error
FetchCodes == {None, "42P01", "other"}

\* mutant: error 42P01 is thrown like every other error
fetchSprintTasksResult_Throws42P01(f, rows, code) ==
    IF code = None
    THEN [f EXCEPT !.phase = "ok", !.code = code,
                   !.data = fetchSprintTasks(rows, f.sprintId)]
    ELSE [f EXCEPT !.phase = "error", !.code = code]

\* fetchSprintTasks: the mapped rows, [] on error 42P01, a throw otherwise
fetchSprintTasksResult(f, rows, code) ==
    IF code = None
    THEN [f EXCEPT !.phase = "ok", !.code = code,
                   !.data = fetchSprintTasks(rows, f.sprintId)]
    ELSE IF code = "42P01"
    THEN [f EXCEPT !.phase = "ok", !.code = code, !.data = <<>>]
    ELSE [f EXCEPT !.phase = "error", !.code = code]

\* fetchTasks up to the await, run by the effect when the sprintId prop
\* changes: setLoading(true) and the call of fetchSprintTasks
fetchTasks(newSprintId) ==
    /\ mounted
    /\ newSprintId \in Sprints /\ newSprintId # sprintId
    /\ activeId = None /\ ~isEditDialogOpen
    /\ nLoad < MaxLoad
    /\ sprintId' = newSprintId
    /\ loading' = TRUE
    /\ nLoad' = nLoad + 1
    /\ fetches' = fetches \cup
         {[id |-> nLoad + 1, sprintId |-> newSprintId, phase |-> "sent",
           code |-> None, data |-> <<>>]}
    /\ UNCHANGED <<offBoard, mounted, tasks, session, dialog, user, db,
                   updates, deletes, nextReq, nDel, nEdit, toasts, history>>

\* the backend answers the select of fetchSprintTasks
ServerFetch(f) ==
    /\ f \in fetches /\ f.phase = "sent"
    /\ \E code \in FetchCodes :
         fetches' = (fetches \ {f}) \cup {fetchSprintTasksResult(f, db, code)}
    /\ UNCHANGED <<offBoard, mounted, tasks, loading, session, dialog, user,
                   sprintId, db, updates, deletes, counters, toasts, history>>

\* mutant: setLoading(false) follows setTasks in the try block instead of
\* standing in a finally block
fetchTasksSettled_NoFinally(f) ==
    /\ f \in fetches /\ f.phase # "sent"
    /\ fetches' = fetches \ {f}
    /\ IF f.phase = "ok"
       THEN /\ tasks' = setState(mounted, tasks, f.data)
            /\ toasts' = toasts
            /\ loading' = setState(mounted, loading, FALSE)
       ELSE /\ tasks' = tasks
            /\ toasts' = toastError(toasts)
            /\ loading' = loading
    /\ UNCHANGED <<offBoard, mounted, session, dialog, user, sprintId, db,
                   updates, deletes, counters, history>>

\* mutant: the catch block empties the store
fetchTasksSettled_ClearsOnError(f) ==
    /\ f \in fetches /\ f.phase # "sent"
    /\ fetches' = fetches \ {f}
    /\ IF f.phase = "ok"
       THEN tasks' = setState(mounted, tasks, f.data) /\ toasts' = toasts
       ELSE tasks' = setState(mounted, tasks, <<>>)
            /\ toasts' = toastError(toasts)
    /\ loading' = setState(mounted, loading, FALSE)
    /\ UNCHANGED <<offBoard, mounted, session, dialog, user, sprintId, db,
                   updates, deletes, counters, history>>

\* fetchTasks after the await: setTasks(sprintTasks) or the catch block,
\* then the finally block
fetchTasksSettled(f) ==
    /\ f \in fetches /\ f.phase # "sent"
    /\ fetches' = fetches \ {f}
    /\ IF f.phase = "ok"
       THEN tasks' = setState(mounted, tasks, f.data) /\ toasts' = toasts
       ELSE tasks' = tasks /\ toasts' = toastError(toasts)
    /\ loading' = setState(mounted, loading, FALSE)
    /\ UNCHANGED <<offBoard, mounted, session, dialog, user, sprintId, db,
                   updates, deletes, counters, history>>

\* ------------------------------------------------------------------ auth
\* the auth context's user changes (sign-out, sign-in)
AuthChange ==
    /\ user' = IF user = None THEN "u1" ELSE None
    /\ UNCHANGED <<offBoard, mounted, tasks, loading, session, dialog,
                   sprintId, db, fetches, updates, deletes, counters, toasts,
                   history>>

\* ------------------------------------------------------------- dragging
\* handleDragStart: a drag starts on a card that is on screen
handleDragStart(taskId) ==
    /\ Interactive /\ activeId = None
    /\ taskId \in Rendered(tasks)
    /\ activeId' = taskId
    /\ activeTask' = IF FindTask(tasks, taskId) # NoTask
                     THEN FindTask(tasks, taskId) ELSE activeTask
    /\ dropResult' = None
    /\ UNCHANGED <<offBoard, mounted, tasks, loading, currentOverId, dialog,
                   user, sprintId, db, fetches, updates, deletes, counters,
                   toasts, lastReq>>

\* mutant: the hover already moves the card to the lane under the pointer
handleDragOver_MovesCard(over) ==
    /\ mounted /\ ~loading /\ activeId # None
    /\ over \in HoverIds \cup {None}
    /\ currentOverId' = IF over # None THEN over ELSE currentOverId
    /\ tasks' = IF newStatusMap(over) # None
                THEN OptimisticUpdate(tasks, activeId, newStatusMap(over))
                ELSE tasks
    /\ UNCHANGED <<offBoard, mounted, loading, activeTask, activeId, dialog,
                   user, sprintId, db, fetches, updates, deletes, counters,
                   toasts, history>>

\* handleDragOver: over is None when the pointer is over no droppable
handleDragOver(over) ==
    /\ mounted /\ ~loading /\ activeId # None
    /\ over \in HoverIds \cup {None}
    /\ currentOverId' = IF over # None THEN over ELSE currentOverId
    /\ UNCHANGED <<offBoard, mounted, tasks, loading, activeTask, activeId,
                   dialog, user, sprintId, db, fetches, updates, deletes,
                   counters, toasts, history>>

\* mutant: setCurrentOverId(null) is missing
ClearedSession_KeepsHover == <<NoTask, None, currentOverId>>

\* mutant: setActiveTask(null) is missing
ClearedSession_KeepsActiveTask == <<activeTask, None, None>>

\* setActiveTask(null); setActiveId(null); setCurrentOverId(null)
ClearedSession == <<NoTask, None, None>>

\* mutant: the test newStatus === task.status is missing
dropBranch_NoSameLaneTest(over, task, usr) ==
    IF over = None THEN "noOver"
    ELSE IF task = NoTask THEN "noTask"
    ELSE IF usr = None THEN "noUser"
    ELSE IF newStatusMap(over) = None THEN "noLane"
    ELSE "move"

\* the early returns of handleDragEnd (lines 360-376): the branch taken
dropBranch(over, task, usr) ==
    IF over = None THEN "noOver"
    ELSE IF task = NoTask THEN "noTask"
    ELSE IF usr = None THEN "noUser"
    ELSE IF newStatusMap(over) = None THEN "noLane"
    ELSE IF newStatusMap(over) = task.status THEN "sameLane"
    ELSE "move"

\* handleDragEnd up to the await of updateTask.  task is read from the tasks
\* of the render the handler belongs to, which is the store at the event.
handleDragEnd(over) ==
    /\ mounted /\ ~loading /\ activeId # None
    /\ over \in OverIds \cup {None}
    /\ activeTask' = ClearedSession[1]
    /\ activeId' = ClearedSession[2]
    /\ currentOverId' = ClearedSession[3]
    /\ LET taskId == activeId
           task == FindTask(tasks, taskId)
           newStatus == newStatusMap(over)
       IN  /\ dropResult' = dropBranch(over, task, user)
           /\ IF dropBranch(over, task, user) # "move"
              THEN UNCHANGED <<tasks, updates, nextReq, lastReq>>
              ELSE /\ nextReq < MaxReq
                   /\ tasks' = OptimisticUpdate(tasks, taskId, newStatus)
                   /\ nextReq' = nextReq + 1
                   /\ updates' = updates \cup
                        {[id |-> nextReq + 1, taskId |-> taskId, task |-> task,
                          newStatus |-> newStatus, user_id |-> user,
                          phase |-> "sent"]}
                   /\ lastReq' = [lastReq EXCEPT ![taskId] = nextReq + 1]
    /\ UNCHANGED <<offBoard, mounted, loading, dialog, user, sprintId, db,
                   fetches, deletes, nDel, nEdit, nLoad, toasts>>

\* the backend processes a received update: it rewrites the row from
\* updatedTask = { ...task, status: newStatus, user_id }, or answers an error
ServerUpdate(r) ==
    /\ r \in updates /\ r.phase = "sent"
    /\ \E ok \in BOOLEAN :
         IF ok
         THEN /\ db' = dbUpdate(db, [r.task EXCEPT !.status = r.newStatus])
              /\ updates' = (updates \ {r}) \cup {[r EXCEPT !.phase = "ok"]}
         ELSE /\ db' = db
              /\ updates' = (updates \ {r}) \cup {[r EXCEPT !.phase = "error"]}
    /\ UNCHANGED <<offBoard, mounted, tasks, loading, session, dialog, user,
                   sprintId, fetches, deletes, counters, toasts, history>>

\* handleDragEnd after the await: the success toast, or the catch block
handleDragEndSettled(r) ==
    /\ r \in updates /\ r.phase # "sent"
    /\ updates' = updates \ {r}
    /\ IF r.phase = "ok"
       THEN /\ tasks' = tasks
            /\ toasts' = toastSuccess(toasts)
       ELSE /\ tasks' = setState(mounted, tasks,
                                 Rollback(tasks, r.taskId, r.task))
            /\ toasts' = toastError(toasts)
    /\ UNCHANGED <<offBoard, mounted, loading, session, dialog, user,
                   sprintId, db, fetches, deletes, counters, history>>

\* -------------------------------------------------------------- deleting
\* handleDeleteTask up to the await: the card's delete button.  The handler
\* closes over the tasks of the render it belongs to.
handleDeleteTask(taskId) ==
    /\ Interactive /\ activeId = None
    /\ taskId \in Rendered(tasks)
    /\ nDel < MaxDel
    /\ nDel' = nDel + 1
    /\ deletes' = deletes \cup
         {[id |-> nDel + 1, taskId |-> taskId, tasks |-> tasks,
           phase |-> "sent"]}
    /\ UNCHANGED <<offBoard, mounted, tasks, loading, session, dialog, user,
                   sprintId, db, fetches, updates, nextReq, nEdit, nLoad,
                   toasts, dropResult, lastReq>>

\* the backend processes a received delete, or answers an error
ServerDelete(d) ==
    /\ d \in deletes /\ d.phase = "sent"
    /\ \E ok \in BOOLEAN :
         IF ok
         THEN /\ db' = dbDelete(db, d.taskId)
              /\ deletes' = (deletes \ {d}) \cup {[d EXCEPT !.phase = "ok"]}
         ELSE /\ db' = db
              /\ deletes' = (deletes \ {d}) \cup {[d EXCEPT !.phase = "error"]}
    /\ UNCHANGED <<offBoard, mounted, tasks, loading, session, dialog, user,
                   sprintId, fetches, updates, counters, toasts, history>>

\* handleDeleteTask after the await: setTasks(tasks.filter(...)) with the
\* tasks the handler closed over, or the catch block
handleDeleteTaskSettled(d) ==
    /\ d \in deletes /\ d.phase # "sent"
    /\ deletes' = deletes \ {d}
    /\ IF d.phase = "ok"
       THEN /\ tasks' = setState(mounted, tasks,
                                 RemoveTask(d.tasks, d.taskId))
            /\ toasts' = toastSuccess(toasts)
       ELSE /\ tasks' = tasks
            /\ toasts' = toastError(toasts)
    /\ UNCHANGED <<offBoard, mounted, loading, session, dialog, user,
                   sprintId, db, fetches, updates, counters, history>>

\* --------------------------------------------------------------- editing
\* handleEditTask: the card's edit button opens the (modal) dialog
handleEditTask(taskId) ==
    /\ Interactive /\ activeId = None
    /\ taskId \in Rendered(tasks)
    /\ nEdit < MaxEdit
    /\ selectedTask' = FindTask(tasks, taskId)
    /\ isEditDialogOpen' = TRUE
    /\ UNCHANGED <<offBoard, mounted, tasks, loading, session, user, sprintId,
                   db, fetches, updates, deletes, counters, toasts, history>>

\* EditTaskDialog.handleSubmit: updatedTask is the task the dialog was opened
\* with, overlaid with the form's fields; then the board's onTaskUpdated
onTaskUpdated(title, status) ==
    /\ mounted /\ ~loading /\ isEditDialogOpen
    /\ title \in Titles /\ status \in Status
    /\ LET updatedTask ==
             [selectedTask EXCEPT !.title = title, !.status = status]
       IN  tasks' = ReplaceTask(tasks, updatedTask)
    /\ isEditDialogOpen' = FALSE
    /\ nEdit' = nEdit + 1
    /\ UNCHANGED <<offBoard, mounted, loading, session, selectedTask, user,
                   sprintId, db, fetches, updates, deletes, nextReq, nDel,
                   nLoad, toasts, history>>

\* the dialog's Cancel button: onOpenChange(false)
onOpenChange ==
    /\ mounted /\ ~loading /\ isEditDialogOpen
    /\ isEditDialogOpen' = FALSE
    /\ UNCHANGED <<offBoard, mounted, tasks, loading, session, selectedTask,
                   user, sprintId, db, fetches, updates, deletes, counters,
                   toasts, history>>

\* ------------------------------------------------------------- unmount
\* the page of the board is left: React unmounts the component.  Nothing
\* cancels the calls in flight.
Unmount ==
    /\ mounted
    /\ mounted' = FALSE
    /\ UNCHANGED <<offBoard, tasks, loading, session, dialog, user, sprintId,
                   db, fetches, updates, deletes, counters, toasts, history>>

\* ------------------------------------------------- the lagging boards
\* the board variants that write the store only after updateTask resolved
\* (KanbanBoard at lines 526-733 and at lines 798-974)

\* the if / else-if chain over over.id: a drop on anything that is no lane
\* leaves newStatus at task.status
newStatusLagging(over, task) ==
    IF over \in Lanes THEN newStatusMap(over) ELSE task.status

\* the update calls that have not run their handler to the end
InFlightUpdates == {r \in updates : r.phase \in {"sent", "ok", "error"}}

\* handleDragEnd of a lagging board up to the await of updateTask; the drop
\* event carries the dragged card (active.id) and the droppable under it.
\* History field: began holds the calls in flight at this moment.
handleDragEndLagging(taskId, over) ==
    /\ Interactive
    /\ taskId \in Rendered(tasks)
    /\ activeTask' = NoTask
    /\ LET task == FindTask(tasks, taskId)
           newStatus == newStatusLagging(over, task)
       IN  IF over = None \/ user = None \/ newStatus = task.status
           THEN UNCHANGED <<updates, nextReq, lastReq>>
           ELSE /\ nextReq < MaxReq
                /\ nextReq' = nextReq + 1
                /\ updates' = updates \cup
                     {[id |-> nextReq + 1, taskId |-> taskId, task |-> task,
                       newStatus |-> newStatus, user_id |-> user,
                       tasks |-> tasks, phase |-> "sent",
                       began |-> {q.id : q \in InFlightUpdates}]}
                /\ lastReq' = [lastReq EXCEPT ![taskId] = nextReq + 1]
    /\ UNCHANGED <<offBoard, mounted, tasks, loading, activeId, currentOverId,
                   dialog, user, sprintId, db, fetches, deletes, nDel, nEdit,
                   nLoad, toasts, dropResult>>

\* handleDragEnd of a lagging board after the await:
\* setTasks(tasks.map(t => t.id === taskId ? { ...t, status: newStatus } : t))
\* over the tasks of the render in which the drop happened, and the success
\* toast; or the catch block with the error toast.  The finished call is
\* kept, marked as settled.
handleDragEndLaggingSettled(r) ==
    /\ r \in updates /\ r.phase \in {"ok", "error"}
    /\ IF r.phase = "ok"
       THEN /\ tasks' = setState(mounted, tasks,
                           OptimisticUpdate(r.tasks, r.taskId, r.newStatus))
            /\ toasts' = toastSuccess(toasts)
            /\ updates' = (updates \ {r}) \cup {[r EXCEPT !.phase = "resolved"]}
       ELSE /\ tasks' = tasks
            /\ toasts' = toastError(toasts)
            /\ updates' = (updates \ {r}) \cup {[r EXCEPT !.phase = "rejected"]}
    /\ UNCHANGED <<offBoard, mounted, loading, session, dialog, user,
                   sprintId, db, fetches, deletes, counters, history>>

\* -------------------------------------------------------- the sprint page
\* SprintPage keeps its own task store (tasks) and loading flag (isLoading,
\* here loading); its cards carry a status menu instead of being dragged

\* the statuses the page groups by, which are those its menu offers
PageStatus == {"todo", "in-progress", "done"}

\* todoTasks, inProgressTasks, doneTasks
pageColumn(ts, status) == SelectSeq(ts, LAMBDA t : t.status = status)

\* the cards the page shows
PageRendered(ts) ==
    UNION {{pageColumn(ts, status)[k].id :
               k \in 1..Len(pageColumn(ts, status))} : status \in PageStatus}

\* the backend answers the page's select of the sprint's tasks: the rows, or
\* taskError
ServerSelectTasks(f) ==
    /\ f \in fetches /\ f.phase = "sent"
    /\ \E taskError \in BOOLEAN :
         fetches' = (fetches \ {f}) \cup
            {IF taskError
             THEN [f EXCEPT !.phase = "error", !.code = "other"]
             ELSE [f EXCEPT !.phase = "ok",
                            !.data = fetchSprintTasks(db, f.sprintId)]}
    /\ UNCHANGED <<offBoard, mounted, tasks, loading, session, dialog, user,
                   sprintId, db, updates, deletes, counters, toasts, history>>

\* fetchSprintData after the await of the tasks select: setTasks when there
\* is no taskError, and setIsLoading(false) in the finally block
fetchSprintDataSettled(f) ==
    /\ f \in fetches /\ f.phase # "sent"
    /\ fetches' = fetches \ {f}
    /\ tasks' = IF f.phase = "ok" THEN setState(mounted, tasks, f.data)
                ELSE tasks
    /\ loading' = setState(mounted, loading, FALSE)
    /\ UNCHANGED <<offBoard, mounted, session, dialog, user, sprintId, db,
                   updates, deletes, counters, toasts, history>>

\* handleTaskStatusChange up to the await: the status menu of a card
handleTaskStatusChange(taskId, newStatus) ==
    /\ mounted /\ ~loading
    /\ taskId \in PageRendered(tasks)
    /\ nextReq < MaxReq
    /\ nextReq' = nextReq + 1
    /\ updates' = updates \cup
         {[id |-> nextReq + 1, taskId |-> taskId, newStatus |-> newStatus,
           tasks |-> tasks, phase |-> "sent",
           began |-> {q.id : q \in InFlightUpdates}]}
    /\ lastReq' = [lastReq EXCEPT ![taskId] = nextReq + 1]
    /\ UNCHANGED <<offBoard, mounted, tasks, loading, session, dialog, user,
                   sprintId, db, fetches, deletes, nDel, nEdit, nLoad, toasts,
                   dropResult>>

\* the backend applies .update({ status: newStatus }).eq('id', taskId), or
\* answers an error
ServerStatusUpdate(r) ==
    /\ r \in updates /\ r.phase = "sent"
    /\ \E ok \in BOOLEAN :
         IF ok
         THEN /\ db' = IF db[r.taskId] = NoRow THEN db
                       ELSE [db EXCEPT ![r.taskId].status = r.newStatus]
              /\ updates' = (updates \ {r}) \cup {[r EXCEPT !.phase = "ok"]}
         ELSE /\ db' = db
              /\ updates' = (updates \ {r}) \cup {[r EXCEPT !.phase = "error"]}
    /\ UNCHANGED <<offBoard, mounted, tasks, loading, session, dialog, user,
                   sprintId, fetches, deletes, counters, toasts, history>>

\* handleTaskStatusChange after the await: setTasks(tasks.map(...)) over the
\* tasks of the render the menu belonged to, and the success toast; or the
\* catch block.  The finished call is kept, marked as settled.
handleTaskStatusChangeSettled(r) ==
    /\ r \in updates /\ r.phase \in {"ok", "error"}
    /\ IF r.phase = "ok"
       THEN /\ tasks' = setState(mounted, tasks,
                           OptimisticUpdate(r.tasks, r.taskId, r.newStatus))
            /\ toasts' = toastSuccess(toasts)
            /\ updates' = (updates \ {r}) \cup {[r EXCEPT !.phase = "resolved"]}
       ELSE /\ tasks' = tasks
            /\ toasts' = toastError(toasts)
            /\ updates' = (updates \ {r}) \cup {[r EXCEPT !.phase = "rejected"]}
    /\ UNCHANGED <<offBoard, mounted, loading, session, dialog, user,
                   sprintId, db, fetches, deletes, counters, history>>

\* ------------------------------------------------------ joining a project
\* the calls that have not returned or thrown yet
InFlightJoins == {j \in joins : j.phase \in {"select", "update"}}

\* a user calls joinProject(code, userId); the select is sent.  History
\* fields: began holds the calls in flight at this moment, member tells
\* whether the user is then a member of the project that has the code
joinProject(variant, code, userId) ==
    /\ nJoin < MaxJoin
    /\ nJoin' = nJoin + 1
    /\ joins' = joins \cup
          {[id |-> nJoin + 1, variant |-> variant, code |-> code,
            userId |-> userId, phase |-> "select", data |-> NoProject,
            began |-> {k.id : k \in InFlightJoins},
            member |-> includes(selectByCode(projects, code).members, userId)]}
    /\ UNCHANGED <<board, auth, projects>>

\* joinProject after the first await: the select has been answered; no row
\* throws, a member gets the row back, anyone else sends the update of the
\* members array computed from the row that was read
joinProjectSelected(j) ==
    /\ j.phase = "select"
    /\ LET data == selectByCode(projects, eqCode(j.variant, j.code))
       IN  joins' = (joins \ {j}) \cup
             {IF data = NoProject
                THEN [j EXCEPT !.phase = "threw"]
              ELSE IF includes(data.members, j.userId)
                THEN [j EXCEPT !.phase = "returned", !.data = data]
              ELSE [j EXCEPT !.phase = "update",
                             !.data = [data EXCEPT !.members =
                                          Append(data.members, j.userId)]]}
    /\ UNCHANGED <<board, auth, projects, nJoin>>

\* joinProject after the second await: the update of the row with id
\* data.id has been applied, or refused with updateError
joinProjectSettled(j, updateError) ==
    /\ j.phase = "update"
    /\ IF updateError
         THEN /\ joins' = (joins \ {j}) \cup {[j EXCEPT !.phase = "threw"]}
              /\ UNCHANGED projects
         ELSE /\ joins' = (joins \ {j}) \cup {[j EXCEPT !.phase = "returned"]}
              /\ projects' = [projects EXCEPT ![j.data.id].members =
                                                  j.data.members]
    /\ UNCHANGED <<board, auth, nJoin>>

\* ------------------------------------------------------- the auth provider
\* handleSessionChange up to its await, run for the initial session and for
\* every onAuthStateChange event: a session starts the lookup of the user's
\* profile, no session sets the signed-out state at once
handleSessionChange(authSession) ==
    /\ nEvent < MaxEvent
    /\ nEvent' = nEvent + 1
    /\ lastSession' = authSession
    /\ IF authSession # None
       THEN /\ lookups' = lookups \cup {[id |-> nEvent + 1, userId |-> authSession]}
            /\ authState' = authState
       ELSE /\ lookups' = lookups
            /\ authState' = [isAuthenticated |-> FALSE, user |-> NoUser,
                             isLoading |-> FALSE]
    /\ UNCHANGED <<board, projects, joins, nJoin>>

\* handleSessionChange after the await: the profile row, or the catch block
\* after an error; both set the signed-in state for the session's user (the
\* catch block takes the name from the e-mail address)
handleSessionChangeSettled(l, error) ==
    /\ l \in lookups
    /\ lookups' = lookups \ {l}
    /\ authState' = [isAuthenticated |-> TRUE,
                     user |-> [id |-> l.userId, profile |-> ~error],
                     isLoading |-> FALSE]
    /\ UNCHANGED <<board, projects, joins, nJoin, nEvent, lastSession>>

\* ------------------------------------------------------- specifications
\* the drag-and-drop core: loading, the auth context, the drag gesture and
\* the update requests it issues
Next ==
    \/ \E f \in fetches : ServerFetch(f)
    \/ \E f \in fetches : fetchTasksSettled(f)
    \/ AuthChange
    \/ \E taskId \in TaskIds : handleDragStart(taskId)
    \/ \E over \in HoverIds \cup {None} : handleDragOver(over)
    \/ \E over \in OverIds \cup {None} : handleDragEnd(over)
    \/ \E r \in updates : ServerUpdate(r)
    \/ \E r \in updates : handleDragEndSettled(r)

Spec == Init /\ [][Next]_vars

\* the whole board: the drag-and-drop core together with the delete button
\* and the edit dialog
Ops == nextReq + nDel + nEdit

NextBoard ==
    \/ \E f \in fetches : ServerFetch(f)
    \/ \E f \in fetches : fetchTasksSettled(f)
    \/ AuthChange
    \/ \E taskId \in TaskIds : handleDragStart(taskId)
    \/ \E over \in HoverIds \cup {None} : handleDragOver(over)
    \/ \E over \in OverIds \cup {None} :
          handleDragEnd(over) /\ nextReq' + nDel + nEdit =< MaxOps
    \/ \E r \in updates : ServerUpdate(r)
    \/ \E r \in updates : handleDragEndSettled(r)
    \/ \E taskId \in TaskIds : Ops < MaxOps /\ handleDeleteTask(taskId)
    \/ \E d \in deletes : ServerDelete(d)
    \/ \E d \in deletes : handleDeleteTaskSettled(d)
    \/ \E taskId \in TaskIds : Ops < MaxOps /\ handleEditTask(taskId)
    \/ \E title \in Titles, status \in Status : onTaskUpdated(title, status)
    \/ onOpenChange

SpecBoard == Init /\ [][NextBoard]_vars

\* the whole board when its page can be left: the board unmounts and the
\* calls in flight still complete
NextUnmount == NextBoard \/ Unmount

SpecUnmount == Init /\ [][NextUnmount]_vars

SpecMalformed == InitMalformed /\ [][NextBoard]_vars

\* the drag-and-drop core of a board whose sprintId prop changes; the
\* reloads and the update requests share the budget of the whole board
NextLoad ==
    \/ \E f \in fetches : ServerFetch(f)
    \/ \E f \in fetches : fetchTasksSettled(f)
    \/ \E newSprintId \in Sprints :
          fetchTasks(newSprintId) /\ nextReq + nLoad =< MaxOps
    \/ AuthChange
    \/ \E taskId \in TaskIds : handleDragStart(taskId)
    \/ \E over \in HoverIds \cup {None} : handleDragOver(over)
    \/ \E over \in OverIds \cup {None} :
          handleDragEnd(over) /\ nextReq' + nLoad =< MaxOps + 1
    \/ \E r \in updates : ServerUpdate(r)
    \/ \E r \in updates : handleDragEndSettled(r)

SpecLoad == Init /\ [][NextLoad]_vars

\* users joining projects through the projects collaborator
NextJoin ==
    \/ \E variant \in Variants, code \in Codes, userId \in Users :
          joinProject(variant, code, userId)
    \/ \E j \in joins : joinProjectSelected(j)
    \/ \E j \in joins, updateError \in BOOLEAN :
          joinProjectSettled(j, updateError)

SpecJoin == Init /\ [][NextJoin]_vars

\* a lagging board: the load, then drops and their completions
NextLagging ==
    \/ \E f \in fetches : ServerFetch(f)
    \/ \E f \in fetches : fetchTasksSettled(f)
    \/ AuthChange
    \/ \E taskId \in TaskIds, over \in OverIds \cup {None} :
          handleDragEndLagging(taskId, over)
    \/ \E r \in updates : ServerUpdate(r)
    \/ \E r \in updates : handleDragEndLaggingSettled(r)

SpecLagging == Init /\ [][NextLagging]_vars

\* the sprint page opened by a signed-in user, over either table
InitSprintPage ==
    /\ \E rows \in {InitRows, ReviewRows} : InitWith(rows)
    /\ user = "u1"

NextSprintPage ==
    \/ \E f \in fetches : ServerSelectTasks(f)
    \/ \E f \in fetches : fetchSprintDataSettled(f)
    \/ \E taskId \in TaskIds, newStatus \in PageStatus :
          handleTaskStatusChange(taskId, newStatus)
    \/ \E r \in updates : ServerStatusUpdate(r)
    \/ \E r \in updates : handleTaskStatusChangeSettled(r)

SpecSprintPage == InitSprintPage /\ [][NextSprintPage]_vars

\* the auth provider under session events
NextAuth ==
    \/ \E authSession \in Sessions : handleSessionChange(authSession)
    \/ \E l \in lookups, error \in BOOLEAN :
          handleSessionChangeSettled(l, error)

SpecAuth == Init /\ [][NextAuth]_vars

TypeOK ==
    /\ mounted \in BOOLEAN
    /\ loading \in BOOLEAN
    /\ sprintId \in Sprints
    /\ nLoad \in 1..MaxLoad
    /\ \A f \in fetches : f.id \in 1..nLoad /\ f.sprintId \in Sprints
    /\ activeId \in TaskIds \cup {None}
    /\ currentOverId \in OverIds \cup {None}
    /\ user \in {None, "u1"}
    /\ nextReq \in 0..MaxReq
    /\ \A id \in TaskIds : lastReq[id] \in 0..nextReq
    /\ \A r \in updates :
          /\ r.id \in 1..nextReq
          /\ r.phase \in {"sent", "ok", "error", "resolved", "rejected"}

\* ---------------------------------------------------- claim vocabulary
\* the step settles request r: the rest of its handleDragEnd runs
Settles(r) == r \in updates /\ \A q \in updates' : q.id # r.id

\* the step is the drop of the dragged card on `over` (dropResult is none
\* during a drag and every drop records its branch in it)
Drops(over) == activeId # None /\ dropResult' # None /\ handleDragEnd(over)

\* the requests the step issues
Issued == {q \in updates' : \A r \in updates : r.id # q.id}

\* a drop that passes every early return of handleDragEnd
Moves(over) ==
    /\ activeId # None
    /\ over \in Lanes
    /\ user # None
    /\ FindTask(tasks, activeId) # NoTask
    /\ newStatusMap(over) # StatusOf(tasks, activeId)

NoPersistence == UNCHANGED <<updates, db, nextReq>>

NoToast == UNCHANGED toasts

\* ---------------------------------------------------------------- C1
\* C1 as stated: in every state in which an update request is in flight, the
\* store shows its task with the request's target status.
C1_InFlightShowsTarget ==
    \A r \in updates : StatusOf(tasks, r.taskId) = r.newStatus

\* another handler replaces the record of taskId in the store: the edit
\* dialog is submitted for it, a successful delete or a fetch settles
OtherStoreWrite(taskId) ==
    \/ isEditDialogOpen /\ ~isEditDialogOpen' /\ selectedTask.id = taskId
    \/ \E d \in deletes : d.phase = "ok" /\ d \notin deletes'
    \/ \E f \in fetches : f.phase = "ok" /\ f \notin fetches'

\* C1 as amended: the drop that issues the request puts the target status in
\* the store in the same step, and while the request stays in flight the
\* card leaves the target status only when another store write replaces it:
\* a later drop of the same card, the settling of another request for it,
\* an edit of the card, a delete completion or a reload.
C1_OptimisticUntilOverwritten ==
    [][/\ \A over \in OverIds :
            (Moves(over) /\ Drops(over)) =>
                /\ Issued # {}
                /\ \A q \in Issued :
                     /\ q.taskId = activeId /\ q.phase = "sent"
                     /\ q.newStatus = newStatusMap(over)
                     /\ StatusOf(tasks', q.taskId) = q.newStatus
       /\ \A r \in updates :
            (/\ tasks' # tasks
             /\ ~Settles(r)
             /\ StatusOf(tasks, r.taskId) = r.newStatus
             /\ StatusOf(tasks', r.taskId) # r.newStatus) =>
                \/ \E q \in Issued : q.taskId = r.taskId
                \/ \E q \in updates : q.id # r.id /\ q.taskId = r.taskId
                                       /\ Settles(q)
                \/ OtherStoreWrite(r.taskId)]_vars

\* the store is ahead of the backend: the request has not been processed
C1_Witness ==
    \E r \in updates :
        /\ r.phase = "sent"
        /\ StatusOf(tasks, r.taskId) = r.newStatus
        /\ db[r.taskId].status = r.task.status
        /\ r.task.status # r.newStatus

\* ---------------------------------------------------------------- C2
\* C2: when a rejected update request settles, the store shows its task
\* (if a delete has not removed it meanwhile) with the status it had before
\* the drag, which differs from the target, and one more error notification
\* has been surfaced.
C2_RejectReverts ==
    [][\A r \in updates :
          (Settles(r) /\ r.phase = "error") =>
              /\ FindTask(tasks, r.taskId) # NoTask =>
                    StatusOf(tasks', r.taskId) = r.task.status
              /\ r.task.status # r.newStatus
              /\ toasts'.error = toasts.error + 1
              /\ toasts'.success = toasts.success]_vars

\* one drag was made, its request was rejected and the store is back at the
\* loaded tasks
C2_Witness ==
    /\ nextReq = 1 /\ updates = {}
    /\ nDel = 0 /\ nEdit = 0
    /\ toasts.error = 1
    /\ tasks = mappedTasks(InitRows)

\* ---------------------------------------------------------------- C3
\* C3: when a successful update request settles, the step leaves the store as
\* it is, surfaces one success notification and no error notification.
C3_SuccessKeepsOptimistic ==
    [][\A r \in updates :
          (Settles(r) /\ r.phase = "ok") =>
              /\ tasks' = tasks
              /\ toasts'.success = toasts.success + 1
              /\ toasts'.error = toasts.error]_vars

\* one drag was made, its request succeeded and the card is on the target lane
C3_Witness ==
    /\ nextReq = 1 /\ updates = {}
    /\ toasts = [success |-> 1, error |-> 0]
    /\ \E id \in TaskIds :
          /\ lastReq[id] = 1
          /\ StatusOf(tasks, id) # InitRows[id].status
          /\ StatusOf(tasks, id) = db[id].status

\* ---------------------------------------------------------------- C4
\* C4: dropping a card on the lane of its current status issues no
\* persistence call, leaves the store as it is and surfaces no notification.
C4_SameLaneNoEffect ==
    [][\A over \in Lanes :
          (newStatusMap(over) = StatusOf(tasks, activeId) /\ Drops(over)) =>
              /\ tasks' = tasks
              /\ NoPersistence
              /\ NoToast]_vars

\* a signed-in user has just dropped a card on its own lane
C4_Witness ==
    /\ dropResult = "sameLane"
    /\ user # None
    /\ tasks # <<>>

\* ---------------------------------------------------------------- C5
\* C5: a drag-end with no drop target takes the board from a drag back to
\* idle and leaves the store, the persistence calls and the notifications
\* as they are.
C5_NoTargetNoEffect ==
    [][Drops(None) =>
          /\ activeId' = None /\ currentOverId' = None /\ activeTask' = NoTask
          /\ tasks' = tasks
          /\ NoPersistence
          /\ NoToast]_vars

\* a card has just been dropped outside every droppable
C5_Witness ==
    /\ dropResult = "noOver"
    /\ activeId = None /\ currentOverId = None
    /\ tasks # <<>>

\* ---------------------------------------------------------------- C6
\* C6 as stated: a drop on a target that is no lane leaves the store and the
\* Drag Session as they are.
C6_UnresolvableKeepsSession ==
    [][\A over \in OverIds \ Lanes :
          Drops(over) => tasks' = tasks /\ UNCHANGED session]_vars

\* C6 as amended: a drop on a target that is no lane leaves the store as it
\* is, issues no persistence call and surfaces no notification; the Drag
\* Session is cleared.
C6_UnresolvableKeepsStore ==
    [][\A over \in OverIds \ Lanes :
          Drops(over) =>
              /\ tasks' = tasks
              /\ NoPersistence
              /\ NoToast
              /\ activeId' = None /\ currentOverId' = None
              /\ activeTask' = NoTask]_vars

\* a signed-in user has just dropped a card on another card
C6_Witness ==
    /\ dropResult = "noLane"
    /\ activeId = None
    /\ tasks # <<>>

\* ---------------------------------------------------------------- C7
\* C7: every drag-end leaves activeId and currentOverId none, whatever its
\* branch; activeId becomes non-none only by a drag-start and none only by a
\* drag-end, and the settling of a request leaves the session alone.
C7_SessionCleared ==
    [][LET DragEnds == \E over \in OverIds \cup {None} : Drops(over)
       IN  /\ DragEnds => /\ activeId' = None /\ currentOverId' = None
                          /\ activeTask' = NoTask
           /\ (activeId = None /\ activeId' # None) =>
                 handleDragStart(activeId')
           /\ (activeId # None /\ activeId' # activeId) => DragEnds
           /\ (activeId' = None) =>
                 (currentOverId' = None /\ activeTask' = NoTask)
           /\ \A r \in updates : Settles(r) => UNCHANGED session]_vars

\* a drop that issued a request has cleared the session, and the request has
\* since been rejected and rolled back
C7_Witness ==
    /\ dropResult = "move"
    /\ activeId = None /\ currentOverId = None /\ activeTask = NoTask
    /\ toasts.error > 0
    /\ updates = {}

\* ---------------------------------------------------------------- C8
\* C8: when a request settles after a later request was issued for the same
\* task, the stale completion does not change the task's status in the
\* store: it neither reverts nor overwrites the later gesture's result.
C8_StaleCompletionIgnored ==
    [][\A r \in updates :
          (Settles(r) /\ lastReq[r.taskId] > r.id) =>
              StatusOf(tasks', r.taskId) = StatusOf(tasks, r.taskId)]_vars

\* ---------------------------------------------------------------- C9
\* C9: once the backend has applied both of two in-flight update requests
\* for the same task, in whichever order it processed them, the row holds
\* the status of the later gesture.
C9_PersistedInGestureOrder ==
    \A r1, r2 \in updates :
        (/\ r1.taskId = r2.taskId /\ r1.id < r2.id
         /\ r1.phase = "ok" /\ r2.phase = "ok") =>
            db[r2.taskId].status = r2.newStatus

\* --------------------------------------------------------------- C10
\* C10: the settling of an update request for one task, successful or
\* rejected, leaves every other task's record in the store as it is.
C10_OtherTasksUntouched ==
    [][\A r \in updates :
          Settles(r) =>
              \A other \in TaskIds \ {r.taskId} :
                  FindTask(tasks', other) = FindTask(tasks, other)]_vars

\* the request for the first card was rejected and rolled back while the
\* request for the other card is still in flight and shows its target
C10_Witness ==
    /\ nextReq = 2
    /\ toasts.error = 1
    /\ \E r \in updates, other \in TaskIds :
          /\ r.id = 2 /\ other # r.taskId
          /\ lastReq[other] = 1
          /\ StatusOf(tasks, r.taskId) = r.newStatus
          /\ StatusOf(tasks, other) = InitRows[other].status
          /\ StatusOf(tasks, other) # StatusOf(tasks, r.taskId)

\* --------------------------------------------------------------- C11
\* the step settles delete call d: the rest of its handleDeleteTask runs
DeleteSettles(d) ==
    d \in deletes /\ d.phase # "sent" /\ \A e \in deletes' : e.id # d.id

\* the delete calls the step issues
DeleteIssued == {e \in deletes' : \A d \in deletes : d.id # e.id}

\* C11: the step that issues a delete call leaves the store as it is; when
\* a resolved delete of T settles, T is not in the store afterwards
\* and one success notification (no error notification) fires; when a
\* rejected delete settles, the store is left exactly as it is and one error
\* notification (no success notification) fires.
C11_DeleteIffResolved ==
    [][/\ DeleteIssued # {} => (tasks' = tasks /\ NoToast)
       /\ \A d \in deletes :
            DeleteSettles(d) =>
                IF d.phase = "ok"
                THEN /\ FindTask(tasks', d.taskId) = NoTask
                     /\ toasts'.success = toasts.success + 1
                     /\ toasts'.error = toasts.error
                ELSE /\ tasks' = tasks
                     /\ toasts'.error = toasts.error + 1
                     /\ toasts'.success = toasts.success]_vars

\* a delete has resolved and settled: its task is gone from the store and
\* from the table, the other task is still on the board
C11_Witness ==
    /\ nDel = 1 /\ deletes = {}
    /\ toasts.success = 1
    /\ \E id \in TaskIds :
          /\ FindTask(tasks, id) = NoTask
          /\ db[id] = NoRow
          /\ \E other \in TaskIds : FindTask(tasks, other) # NoTask

\* --------------------------------------------------------------- C12
\* the step settles fetch call f: the rest of its fetchTasks runs
FetchSettles(f) ==
    f \in fetches /\ f.phase # "sent" /\ \A g \in fetches' : g.id # f.id

\* the fetch calls the step issues
FetchIssued == {g \in fetches' : \A f \in fetches : f.id # g.id}

\* C12: the step that issues a fetch leaves the loading flag true and the
\* store as it is; the step that settles a fetch leaves the loading flag
\* false; a resolved fetch replaces the store by the fetched tasks without a
\* notification, a rejected fetch leaves the store as it is (empty on the
\* first load) and surfaces one error notification.
C12_LoadingAroundFetch ==
    [][/\ FetchIssued # {} => (loading' = TRUE /\ tasks' = tasks)
       /\ \A f \in fetches :
            FetchSettles(f) =>
                /\ loading' = FALSE
                /\ IF f.phase = "ok"
                   THEN tasks' = f.data /\ toasts' = toasts
                   ELSE /\ tasks' = tasks
                        /\ nLoad = 1 => tasks' = <<>>
                        /\ toasts'.error = toasts.error + 1
                        /\ toasts'.success = toasts.success]_vars

\* the board was reloaded for another sprint, the reload failed and the
\* store still holds the tasks it held before
C12_Witness ==
    /\ nLoad = 2 /\ fetches = {}
    /\ sprintId = "s2"
    /\ loading = FALSE
    /\ toasts.error = 1
    /\ tasks # <<>>

\* --------------------------------------------------------------- C13
\* the collaborator reported NotFound: the table does not exist (42P01) or
\* no row matches the sprint
NotFound(f) ==
    f.code = "42P01" \/ (f.code = None /\ f.phase = "ok" /\ f.data = <<>>)

\* C13: when a fetch that ended with NotFound settles, the store is empty
\* afterwards and no notification is surfaced; the settling of a fetch
\* surfaces an error notification only when the fetch ended with another
\* error.
C13_NotFoundIsEmpty ==
    [][\A f \in fetches :
          FetchSettles(f) =>
              /\ NotFound(f) => (tasks' = <<>> /\ toasts' = toasts)
              /\ toasts' # toasts =>
                    (f.code = "other" /\ toasts'.error = toasts.error + 1)]_vars

\* the board was loaded, then reloaded for a sprint for which the
\* collaborator reported NotFound: the store is empty and nothing was notified
C13_Witness ==
    /\ nLoad = 2 /\ fetches = {}
    /\ sprintId = "s2"
    /\ loading = FALSE
    /\ tasks = <<>>
    /\ toasts = [success |-> 0, error |-> 0]

\* --------------------------------------------------------------- C14
\* how many cards of the lane show task id
Occurrences(lane, id) == Cardinality({k \in 1..Len(lane) : lane[k].id = id})

\* C14: every task of the store whose status is one of the four values is
\* once in the lane of its status and in no other lane.
C14_ExactlyOneLane ==
    \A i \in 1..Len(tasks) :
        tasks[i].status \in Status =>
            \A status \in Status :
                Occurrences(classify(tasks, status), tasks[i].id) =
                    IF status = tasks[i].status THEN 1 ELSE 0

\* after an edit of one task and a drag of the other, both tasks share the
\* lane that is in review
C14_Witness ==
    /\ nEdit = 1 /\ nextReq = 1
    /\ updates = {}
    /\ Len(classify(tasks, "in-review")) = 2

\* --------------------------------------------------------------- C15
\* C15: a task of the store whose status is none of the four values is in no
\* lane and on no card, and the store holds it once.
C15_UnknownStatusInNoLane ==
    \A i \in 1..Len(tasks) :
        tasks[i].status \notin Status =>
            /\ \A status \in Status :
                  Occurrences(classify(tasks, status), tasks[i].id) = 0
            /\ tasks[i].id \notin Rendered(tasks)
            /\ Occurrences(tasks, tasks[i].id) = 1

\* the store holds a task of unrecognized status next to a card that was
\* dragged to another lane
C15_Witness ==
    /\ nextReq = 1 /\ updates = {}
    /\ toasts.success = 1
    /\ StatusOf(tasks, "t2") = "blocked"
    /\ StatusOf(tasks, "t1") # InitRows["t1"].status

\* --------------------------------------------------------------- C16
\* the step is the completion of a call that was issued earlier
Completion ==
    \/ \E r \in updates : Settles(r)
    \/ \E d \in deletes : DeleteSettles(d)
    \/ \E f \in fetches : FetchSettles(f)

\* C16: while there is no current user, no step issues an update or a delete
\* call, and the store changes only by the completion of a call issued
\* earlier.
C16_NoUserNoMutation ==
    [][user = None =>
          /\ Issued = {}
          /\ DeleteIssued = {}
          /\ tasks' # tasks => Completion]_vars

\* --------------------------------------------------------------- C17
\* the step submits the edit dialog / closes it without submitting
EditSubmitted == isEditDialogOpen /\ ~isEditDialogOpen' /\ nEdit' = nEdit + 1
EditCancelled == isEditDialogOpen /\ ~isEditDialogOpen' /\ nEdit' = nEdit

\* C17: the step that submits the edit dialog keeps the length and the order
\* of the store, leaves every record of another id as it is and puts the
\* updated task (the task the dialog was opened with, with the fields of the
\* form) in place of the record of its id; the step that cancels the dialog
\* leaves the store as it is; neither issues a persistence call.
C17_EditReplacesById ==
    [][/\ EditSubmitted =>
            /\ Len(tasks') = Len(tasks)
            /\ \E title \in Titles, status \in Status :
                  \A i \in 1..Len(tasks) :
                      tasks'[i] =
                          IF tasks[i].id = selectedTask.id
                          THEN [selectedTask EXCEPT !.title = title,
                                                    !.status = status]
                          ELSE tasks[i]
            /\ NoPersistence /\ DeleteIssued = {}
       /\ EditCancelled =>
            (tasks' = tasks /\ NoPersistence /\ DeleteIssued = {})]_vars

\* an edit was submitted: one task carries the new title, the other is as
\* it was loaded, and the store still has both in the loaded order
C17_Witness ==
    /\ nEdit = 1 /\ ~isEditDialogOpen
    /\ nextReq = 0 /\ nDel = 0
    /\ Len(tasks) = 2
    /\ tasks[1].id = "t1" /\ tasks[2].id = "t2"
    /\ tasks[2].title = "b"
    /\ tasks[1] = mappedTasks(InitRows)[1]

C19_InteractiveAfterFailure ==
    (toasts.error > 0 /\ fetches = {}) =>
        /\ loading = FALSE
        /\ activeId # None => ENABLED handleDragEnd(None)
        /\ isEditDialogOpen => ENABLED onOpenChange
        /\ (activeId = None /\ ~isEditDialogOpen) =>
              \A id \in Rendered(tasks) :
                  /\ ENABLED handleDragStart(id)
                  /\ nDel < MaxDel => ENABLED handleDeleteTask(id)
                  /\ nEdit < MaxEdit => ENABLED handleEditTask(id)

\* a delete has failed, both cards are still on the board and one of them
\* is being dragged
C19_Witness ==
    /\ nDel = 1 /\ deletes = {}
    /\ toasts.error = 1
    /\ Len(tasks) = 2
    /\ activeId # None

\* --------------------------------------------------------------- C20
\* C20: the step that starts a drag (activeId becomes non-none) sets
\* activeId to a task of the store and activeTask to its record; a step
\* that changes the hover during a drag sets currentOverId to a droppable
\* and leaves activeId and activeTask as they are; both leave the store,
\* the dialog and the notifications as they are and issue no call.
C20_DragStartAndHoverAreSessionOnly ==
    [][/\ (activeId = None /\ activeId' # None) =>
            /\ FindTask(tasks, activeId') # NoTask
            /\ activeTask' = FindTask(tasks, activeId')
            /\ currentOverId' = currentOverId
            /\ tasks' = tasks /\ UNCHANGED dialog
            /\ NoPersistence /\ DeleteIssued = {} /\ FetchIssued = {}
            /\ NoToast
       /\ (activeId' # None /\ currentOverId' # currentOverId) =>
            /\ currentOverId' \in OverIds
            /\ activeId' = activeId /\ activeTask' = activeTask
            /\ tasks' = tasks /\ UNCHANGED dialog
            /\ NoPersistence /\ DeleteIssued = {} /\ FetchIssued = {}
            /\ NoToast]_vars

\* a card is being dragged and hovers over another card, and the store and
\* the table are as they were loaded
C20_Witness ==
    /\ activeId = "t1" /\ currentOverId = "t2"
    /\ tasks = mappedTasks(InitRows)
    /\ db = InitRows
    /\ nextReq = 0

\* ------------------------------------------------- joinProject vocabulary
\* the step is a step of call j
JoinSteps(j) == j \in joins /\ j \notin joins'

\* call j as the step leaves it
JoinAfter(j) == CHOOSE k \in joins' : k.id = j.id

\* the projects that have the code
WithCode(code) == {p \in ProjectIds : projects[p].code = code}

\* no user id occurs twice
NoDuplicates(members) ==
    \A a, b \in 1..Len(members) : members[a] = members[b] => a = b

\* calls j and k were in flight at the same time
Overlap(j, k) == j.id \in k.began \/ k.id \in j.began

\* --------------------------------------------------------------- C21
\* C21: a step of a joinProject(code, userId) call changes only the members
\* of the project that has the code, and userId is among them afterwards;
\* the call returns only when a project has the code and then userId is a
\* member of it; when no project has the code the call throws at the select
\* and no membership changes.
C21_JoinsTheCodesProject ==
    [][\A j \in joins :
          JoinSteps(j) =>
              /\ \A p \in ProjectIds :
                    projects'[p] # projects[p] =>
                        /\ p \in WithCode(j.code)
                        /\ includes(projects'[p].members, j.userId)
              /\ JoinAfter(j).phase = "returned" =>
                    \E p \in WithCode(j.code) :
                        includes(projects'[p].members, j.userId)
              /\ WithCode(j.code) = {} =>
                    /\ JoinAfter(j).phase = "threw"
                    /\ projects' = projects]_vars

\* --------------------------------------------------------------- C22
\* C22: when the select of a joinProject call finds the user among the
\* members of the project it looked up, the call returns that row and the
\* step writes nothing; and as long as no call began while another was in
\* flight, no user id occurs twice in the members of a project.
C22_IdempotentForMember ==
    [][/\ \A j \in joins :
            (/\ JoinSteps(j)
             /\ j.phase = "select"
             /\ includes(selectByCode(projects,
                                      eqCode(j.variant, j.code)).members,
                         j.userId)) =>
                /\ projects' = projects
                /\ JoinAfter(j).phase = "returned"
                /\ JoinAfter(j).data =
                       selectByCode(projects, eqCode(j.variant, j.code))
       /\ (\A j \in joins' : j.began = {}) =>
             \A p \in ProjectIds : NoDuplicates(projects'[p].members)]_vars

\* a user joined a project and then, in a second call, joined it again
C22_Witness ==
    \E j, k \in joins :
        /\ j.id = 1 /\ k.id = 2 /\ k.began = {}
        /\ j.userId = "u2" /\ k.userId = "u2"
        /\ j.phase = "returned" /\ k.phase = "returned"
        /\ j.data = k.data
        /\ projects[j.data.id].members = j.data.members

\* --------------------------------------------------------------- C29
\* C29: when two calls of joinProject with the same code by two different
\* users, neither a member of the code's project when calling, were in
\* flight at the same time and both have returned, both users are members
\* of the code's project.
C29_OverlappingJoinsBothKept ==
    \A j, k \in joins :
        (/\ j.userId # k.userId
         /\ j.code = k.code
         /\ Overlap(j, k)
         /\ ~j.member /\ ~k.member
         /\ j.phase = "returned" /\ k.phase = "returned") =>
            \A p \in WithCode(j.code) :
                /\ includes(projects[p].members, j.userId)
                /\ includes(projects[p].members, k.userId)

\* --------------------------------------------------------------- C23
\* C23: when a resolved delete of T settles on the mounted board, the store
\* afterwards is the store of the moment before with T filtered out: every
\* other record is as the moves, edits and deletions made meanwhile left it.
C23_DeleteKeepsLaterChanges ==
    [][\A d \in deletes :
          (DeleteSettles(d) /\ d.phase = "ok" /\ mounted) =>
              tasks' = SelectSeq(tasks, LAMBDA t : t.id # d.taskId)]_vars

\* --------------------------------------------------------------- C24
\* C24: when a rejected update request settles on the mounted board, the
\* store afterwards differs from the store before at most in the status of
\* the request's task, which is the status it had before the drag; the
\* other fields of that record and the other records are as they were.
C24_RollbackOnlyStatus ==
    [][\A r \in updates :
          (Settles(r) /\ r.phase = "error" /\ mounted) =>
              tasks' = [i \in 1..Len(tasks) |->
                           IF tasks[i].id = r.taskId
                           THEN [tasks[i] EXCEPT !.status = r.task.status]
                           ELSE tasks[i]]]_vars

\* --------------------------------------------------------------- C25
\* C25: in every state with no update request in flight, every task that
\* was moved by drag-and-drop has in the store the status its row has in
\* the tasks table.
C25_QuiescentStoreMatchesTable ==
    updates = {} =>
        \A id \in TaskIds :
            (lastReq[id] > 0 /\ FindTask(tasks, id) # NoTask) =>
                StatusOf(tasks, id) = db[id].status

\* --------------------------------------------------------------- C26
\* C26: on a mounted lagging board, when the status changes of two
\* different tasks were in flight at the same time, both have resolved and
\* run their handlers to the end, and neither task has a later request, the
\* store shows both tasks with their new statuses.
C26_OverlappingChangesBothShown ==
    \A r, q \in updates :
        (/\ r.taskId # q.taskId
         /\ r.id \in q.began
         /\ r.phase = "resolved" /\ q.phase = "resolved"
         /\ lastReq[r.taskId] = r.id /\ lastReq[q.taskId] = q.id
         /\ mounted) =>
            /\ StatusOf(tasks, r.taskId) = r.newStatus
            /\ StatusOf(tasks, q.taskId) = q.newStatus

\* --------------------------------------------------------------- C30
\* C30: when the sprint page shows its board, every task of the store whose
\* status is one of the four valid values is in exactly one of the page's
\* columns, and the lengths of the columns add up to the number of those
\* tasks.
C30_PageShowsEveryValidTask ==
    (mounted /\ ~loading) =>
        /\ \A i \in 1..Len(tasks) :
              tasks[i].status \in Status =>
                  Cardinality({c \in PageStatus :
                      \E k \in 1..Len(pageColumn(tasks, c)) :
                          pageColumn(tasks, c)[k].id = tasks[i].id}) = 1
        /\ Len(pageColumn(tasks, "todo")) + Len(pageColumn(tasks, "in-progress"))
             + Len(pageColumn(tasks, "done"))
           = Cardinality({i \in 1..Len(tasks) : tasks[i].status \in Status})

\* --------------------------------------------------------------- C27
\* C27: on the mounted board, while the load started last is in flight the
\* loading flag is true; and when a second load was started for another
\* sprint, both loads have resolved without an error and no card was
\* moved, the store holds the tasks of the sprint of the second load.
C27_LatestLoadWins ==
    mounted =>
        /\ \A f \in fetches : f.id = nLoad => loading
        /\ (/\ nLoad = 2 /\ fetches = {}
            /\ nextReq = 0 /\ toasts.error = 0) =>
               tasks = fetchSprintTasks(db, sprintId)

\* --------------------------------------------------------------- C28
\* C28: in every state in which a session event has been delivered and no
\* profile lookup is pending, the auth state reflects the most recent
\* event: signed out (isAuthenticated false, user null) when it carried no
\* session, and signed in as the session's user when it carried one.
C28_AuthReflectsLatestEvent ==
    (nEvent > 0 /\ lookups = {}) =>
        IF lastSession = None
        THEN ~authState.isAuthenticated /\ authState.user = NoUser
        ELSE /\ authState.isAuthenticated
             /\ authState.user.id = lastSession

====
